---- MODULE Spec2Model ----
(***************************************************************************)
(* The well-known value resolver of the analyzer                           *)
(* (crates/turbopack/src/analyzer/well_known.rs).                          *)
(*                                                                         *)
(* A JavaScript string is a sequence of one-character strings, so that     *)
(* split("/"), rfind("/") and the slicing str[..i] are computed as the     *)
(* code computes them.  A JsValue is a record with a `tag` field naming    *)
(* its variant.  A panic (Option::unwrap on None) is the pseudo-value      *)
(* Panic: the call that produces it does not return.                       *)
(***************************************************************************)
EXTENDS Naturals, Sequences, FiniteSets

VARIABLES input, output, changed, status

vars == <<input, output, changed, status>>

(***************************************************************************)
(* Bounds of the model.                                                    *)
(***************************************************************************)
\* longest argument list of a Call drawn by Init
MaxArgs == 3

(***************************************************************************)
(* Strings that occur in the source or in the inputs.                      *)
(***************************************************************************)
Slash == "/"
sEmpty == << >>
sDot == <<".">>
sDotDot == <<".", ".">>
sA == <<"a">>
sB == <<"b">>
sAB == <<"a", "/", "b">>
sAbsA == <<"/", "a">>
sSlash == <<"/">>
sResolve == <<"r","e","s","o","l","v","e">>
sJoin == <<"j","o","i","n">>
sDirname == <<"d","i","r","n","a","m","e">>
sPathToFileURL == <<"p","a","t","h","T","o","F","i","l","e","U","R","L">>
sPromises == <<"p","r","o","m","i","s","e","s">>
sFork == <<"f","o","r","k">>
sSpawn == <<"s","p","a","w","n">>
sSpawnSync == <<"s","p","a","w","n","S","y","n","c">>
sExecFile == <<"e","x","e","c","F","i","l","e">>
sExecFileSync == <<"e","x","e","c","F","i","l","e","S","y","n","c">>
sRealpath == <<"r","e","a","l","p","a","t","h">>
sRealpathSync == <<"r","e","a","l","p","a","t","h","S","y","n","c">>
sStat == <<"s","t","a","t">>
sStatSync == <<"s","t","a","t","S","y","n","c">>
sExistsSync == <<"e","x","i","s","t","s","S","y","n","c">>
sCreateReadStream == <<"c","r","e","a","t","e","R","e","a","d","S","t","r","e","a","m">>
sExists == <<"e","x","i","s","t","s">>
sOpen == <<"o","p","e","n">>
sOpenSync == <<"o","p","e","n","S","y","n","c">>
sReadFile == <<"r","e","a","d","F","i","l","e">>
sReadFileSync == <<"r","e","a","d","F","i","l","e","S","y","n","c">>

(***************************************************************************)
(* The JsValue variants the resolver consumes and produces.                *)
(***************************************************************************)
ConstantStr(s) == [tag |-> "Constant", cv |-> [type |-> "Str", str |-> s]]
ConstantNum(n) == [tag |-> "Constant", cv |-> [type |-> "Num", num |-> n]]
Concat(items) == [tag |-> "Concat", items |-> items]
Alternatives(items) == [tag |-> "Alternatives", items |-> items]
Call(callee, args) == [tag |-> "Call", callee |-> callee, args |-> args]
Member(obj, prop) == [tag |-> "Member", obj |-> obj, prop |-> prop]
WellKnownFunction(kind) == [tag |-> "WellKnownFunction", kind |-> kind]
WellKnownObject(kind) == [tag |-> "WellKnownObject", kind |-> kind]
Module(name) == [tag |-> "Module", name |-> name]
Url(url) == [tag |-> "Url", url |-> url]
None == [some |-> FALSE]
Some(x) == [some |-> TRUE, val |-> x]
Unknown(origin, reason) == [tag |-> "Unknown", origin |-> origin, reason |-> reason]
Panic == [tag |-> "Panic"]

\* WellKnownFunctionKind
PathJoin == [name |-> "PathJoin"]
PathDirname == [name |-> "PathDirname"]
PathToFileUrl == [name |-> "PathToFileUrl"]
Require == [name |-> "Require"]
RequireResolve == [name |-> "RequireResolve"]
Import == [name |-> "Import"]
ChildProcessFork == [name |-> "ChildProcessFork"]
FsReadMethod(word) == [name |-> "FsReadMethod", word |-> word]
ChildProcessSpawnMethod(word) == [name |-> "ChildProcessSpawnMethod", word |-> word]

\* WellKnownObjectKind
PathModule == "PathModule"
FsModule == "FsModule"
UrlModule == "UrlModule"
ChildProcess == "ChildProcess"

\* JsValue::as_str: the string of a string constant, nothing for any other value
as_str(v) ==
    IF v.tag = "Constant" /\ v.cv.type = "Str" THEN Some(v.cv.str) ELSE None

\* JsValue::as_word: the word of a string constant
as_word(v) ==
    IF v.tag = "Constant" /\ v.cv.type = "Str" THEN Some(v.cv.str) ELSE None

(***************************************************************************)
(* String primitives.                                                      *)
(***************************************************************************)
\* str.find("/"): the first index of "/" (1-based), 0 when there is none
find(str) ==
    IF \E i \in 1..Len(str) : str[i] = Slash
    THEN CHOOSE i \in 1..Len(str) :
            /\ str[i] = Slash
            /\ \A j \in 1..(i - 1) : str[j] # Slash
    ELSE 0

\* str.rfind("/"): the last index of "/" (1-based), 0 when there is none
rfind(str) ==
    IF \E i \in 1..Len(str) : str[i] = Slash
    THEN CHOOSE i \in 1..Len(str) :
            /\ str[i] = Slash
            /\ \A j \in (i + 1)..Len(str) : str[j] # Slash
    ELSE 0

\* str.split("/"): the pieces between the separators, empty pieces kept
RECURSIVE split(_)
split(str) ==
    LET i == find(str)
    IN  IF i = 0 THEN <<str>>
        ELSE <<SubSeq(str, 1, i - 1)>> \o split(SubSeq(str, i + 1, Len(str)))

\* map over a sequence of strings: s.into() for each piece
IntoValues(strs) == [i \in 1..Len(strs) |-> ConstantStr(strs[i])]

(***************************************************************************)
(* path_join                                                               *)
(***************************************************************************)
\* first loop: literal arguments are split on "/", the others kept whole
RECURSIVE Flatten(_)
Flatten(args) ==
    IF args = << >> THEN << >>
    ELSE LET item == Head(args)
             s == as_str(item)
         IN  (IF s.some THEN IntoValues(split(s.val)) ELSE <<item>>)
             \o Flatten(Tail(args))

\* NormalizeStep with ".." pushed like a real segment instead of popping one
NormalizeStepKeepDotDot(st, item) ==
    LET s == as_str(item)
    IN  IF s.some
        THEN IF s.val = sEmpty \/ s.val = sDot
             THEN IF st.results_final = << >> /\ st.results = << >>
                  THEN [st EXCEPT !.results_final = Append(@, item)]
                  ELSE st
             ELSE [st EXCEPT !.results = Append(@, item)]
        ELSE [results_final |-> Append(st.results_final \o st.results, item),
              results |-> << >>]

\* NormalizeStep with "" and "." dropped wherever they stand
NormalizeStepDropDot(st, item) ==
    LET s == as_str(item)
    IN  IF s.some
        THEN IF s.val = sEmpty \/ s.val = sDot
             THEN st
             ELSE IF s.val = sDotDot
             THEN IF st.results = << >>
                  THEN [st EXCEPT !.results_final = Append(@, item)]
                  ELSE [st EXCEPT !.results = SubSeq(@, 1, Len(@) - 1)]
             ELSE [st EXCEPT !.results = Append(@, item)]
        ELSE [results_final |-> Append(st.results_final \o st.results, item),
              results |-> << >>]

\* NormalizeStep with a non-literal part left pending instead of flushed
NormalizeStepPendingOpaque(st, item) ==
    LET s == as_str(item)
    IN  IF s.some
        THEN IF s.val = sEmpty \/ s.val = sDot
             THEN IF st.results_final = << >> /\ st.results = << >>
                  THEN [st EXCEPT !.results_final = Append(@, item)]
                  ELSE st
             ELSE IF s.val = sDotDot
             THEN IF st.results = << >>
                  THEN [st EXCEPT !.results_final = Append(@, item)]
                  ELSE [st EXCEPT !.results = SubSeq(@, 1, Len(@) - 1)]
             ELSE [st EXCEPT !.results = Append(@, item)]
        ELSE [st EXCEPT !.results = Append(@, item)]

\* one iteration of the second loop, on st = [results_final, results]
NormalizeStep(st, item) ==
    LET s == as_str(item)
    IN  IF s.some
        THEN IF s.val = sEmpty \/ s.val = sDot
             THEN IF st.results_final = << >> /\ st.results = << >>
                  THEN [st EXCEPT !.results_final = Append(@, item)]
                  ELSE st
             ELSE IF s.val = sDotDot
             THEN IF st.results = << >>
                  THEN [st EXCEPT !.results_final = Append(@, item)]
                  ELSE [st EXCEPT !.results = SubSeq(@, 1, Len(@) - 1)]
             ELSE [st EXCEPT !.results = Append(@, item)]
        ELSE [results_final |-> Append(st.results_final \o st.results, item),
              results |-> << >>]

\* the second loop and the flush that follows it
RECURSIVE NormalizeFrom(_, _)
NormalizeFrom(st, parts) ==
    IF parts = << >> THEN st.results_final \o st.results
    ELSE NormalizeFrom(NormalizeStep(st, Head(parts)), Tail(parts))

Normalize(parts) ==
    NormalizeFrom([results_final |-> << >>, results |-> << >>], parts)

\* Separator with the literal "/" as soon as one neighbour is a literal
SeparatorEither(last_is_str, is_str) ==
    IF last_is_str \/ is_str
    THEN ConstantStr(sSlash)
    ELSE Alternatives(<<ConstantStr(sSlash), ConstantStr(sEmpty)>>)

\* the separator pushed between two consecutive finalized parts
Separator(last_is_str, is_str) ==
    IF last_is_str /\ is_str
    THEN ConstantStr(sSlash)
    ELSE Alternatives(<<ConstantStr(sSlash), ConstantStr(sEmpty)>>)

\* the third loop: results after the first part, separators interleaved
RECURSIVE Interleave(_, _)
Interleave(last_is_str, rest) ==
    IF rest = << >> THEN << >>
    ELSE LET part == Head(rest)
             is_str == as_str(part).some
         IN  <<Separator(last_is_str, is_str), part>>
             \o Interleave(is_str, Tail(rest))

\* iter.next().unwrap() panics on an empty results_final
Reassemble(results_final) ==
    IF results_final = << >> THEN Panic
    ELSE LET first == Head(results_final)
         IN  Concat(<<first>> \o Interleave(as_str(first).some, Tail(results_final)))

path_join(args) ==
    IF Len(args) = 0 THEN ConstantStr(sDot)
    ELSE Reassemble(Normalize(Flatten(args)))

(***************************************************************************)
(* path_dirname                                                            *)
(***************************************************************************)
\* str[..i] for the 1-based index i of a "/": the characters before it
Before(str, i) == SubSeq(str, 1, i - 1)

\* the trailing literal of a Concat cut at its last "/", the other items kept
ReplaceLast(items, v) == [items EXCEPT ![Len(items)] = v]

path_dirname_unsupported(args) ==
    Unknown(Some(Call(WellKnownFunction(PathDirname), args)),
            "path.dirname with unsupported arguments")

\* path_dirname with a trailing literal without "/" replaced by ""
path_dirname_empty_without_slash(args) ==
    IF args = << >> THEN path_dirname_unsupported(args)
    ELSE LET arg == args[1]
             s == as_str(arg)
         IN  IF s.some
             THEN IF rfind(s.val) # 0
                  THEN ConstantStr(Before(s.val, rfind(s.val)))
                  ELSE ConstantStr(sEmpty)
             ELSE IF arg.tag = "Concat" /\ arg.items # << >>
                     /\ as_str(arg.items[Len(arg.items)]).some
             THEN LET str == as_str(arg.items[Len(arg.items)]).val
                  IN  Concat(ReplaceLast(arg.items,
                          IF rfind(str) # 0
                          THEN ConstantStr(Before(str, rfind(str)))
                          ELSE ConstantStr(sEmpty)))
             ELSE path_dirname_unsupported(args)

path_dirname(args) ==
    IF args = << >> THEN path_dirname_unsupported(args)
    ELSE LET arg == args[1]
             s == as_str(arg)
         IN  IF s.some
             THEN IF rfind(s.val) # 0
                  THEN ConstantStr(Before(s.val, rfind(s.val)))
                  ELSE ConstantStr(sEmpty)
             ELSE IF arg.tag = "Concat" /\ arg.items # << >>
                     /\ as_str(arg.items[Len(arg.items)]).some
                     /\ rfind(as_str(arg.items[Len(arg.items)]).val) # 0
             THEN LET str == as_str(arg.items[Len(arg.items)]).val
                  IN  Concat(ReplaceLast(arg.items,
                                         ConstantStr(Before(str, rfind(str)))))
             ELSE path_dirname_unsupported(args)

(***************************************************************************)
(* require                                                                 *)
(***************************************************************************)
\* require looking at its first argument whatever their number
require_first_argument(args) ==
    IF Len(args) >= 1
    THEN IF args[1].tag = "Constant" /\ args[1].cv.type = "Str"
         THEN Module(args[1].cv.str)
         ELSE Unknown(Some(Call(WellKnownFunction(Require), args)),
                      "only constant argument is supported")
    ELSE Unknown(Some(Call(WellKnownFunction(Require), args)),
                 "only a single argument is supported")

require(args) ==
    IF Len(args) = 1
    THEN IF args[1].tag = "Constant" /\ args[1].cv.type = "Str"
         THEN Module(args[1].cv.str)
         ELSE Unknown(Some(Call(WellKnownFunction(Require), args)),
                      "only constant argument is supported")
    ELSE Unknown(Some(Call(WellKnownFunction(Require), args)),
                 "only a single argument is supported")

(***************************************************************************)
(* path_to_file_url                                                        *)
(***************************************************************************)
sFileScheme == <<"f","i","l","e",":","/","/">>

\* Url::from_file_path: Ok for an absolute path, Err for a relative one
from_file_path(path) ==
    IF Len(path) > 0 /\ path[1] = Slash
    THEN Some(sFileScheme \o path)
    ELSE None

path_to_file_url(args) ==
    IF Len(args) = 1
    THEN IF args[1].tag = "Constant" /\ args[1].cv.type = "Str"
         THEN LET u == from_file_path(args[1].cv.str)
              IN  IF u.some THEN Url(u.val)
                  ELSE Unknown(Some(Call(WellKnownFunction(PathToFileUrl), args)),
                               "url not parseable")
         ELSE Unknown(Some(Call(WellKnownFunction(PathToFileUrl), args)),
                      "only constant argument is supported")
    ELSE Unknown(Some(Call(WellKnownFunction(PathToFileUrl), args)),
                 "only a single argument is supported")

(***************************************************************************)
(* well_known_function_call                                                *)
(***************************************************************************)
well_known_function_call(kind, this, args) ==
    IF kind = PathJoin THEN path_join(args)
    ELSE IF kind = PathDirname THEN path_dirname(args)
    ELSE IF kind = Import
    THEN Unknown(Some(Call(WellKnownFunction(kind), args)),
                 "import() is not supported")
    ELSE IF kind = Require THEN require(args)
    ELSE IF kind = RequireResolve
    THEN Unknown(Some(Call(WellKnownFunction(kind), args)),
                 "require.resolve() is not supported")
    ELSE IF kind = PathToFileUrl THEN path_to_file_url(args)
    ELSE Unknown(Some(Call(WellKnownFunction(kind), args)),
                 "unsupported function")

(***************************************************************************)
(* Member tables                                                           *)
(***************************************************************************)
\* well_known_function_member with "resolve" looked up on every function
well_known_function_member_any_kind(kind, prop) ==
    IF as_str(prop) = Some(sResolve)
    THEN WellKnownFunction(RequireResolve)
    ELSE Unknown(Some(Member(WellKnownFunction(kind), prop)),
                 "unsupported property on function")

well_known_function_member(kind, prop) ==
    IF kind = Require /\ as_str(prop) = Some(sResolve)
    THEN WellKnownFunction(RequireResolve)
    ELSE Unknown(Some(Member(WellKnownFunction(kind), prop)),
                 "unsupported property on function")

path_module_member(prop) ==
    IF as_str(prop) = Some(sJoin) THEN WellKnownFunction(PathJoin)
    ELSE IF as_str(prop) = Some(sDirname) THEN WellKnownFunction(PathDirname)
    ELSE Unknown(Some(Member(WellKnownObject(PathModule), prop)),
                 "unsupported property on Node.js path module")

FsReadMethods ==
    {sRealpath, sRealpathSync, sStat, sStatSync, sExistsSync, sCreateReadStream,
     sExists, sOpen, sOpenSync, sReadFile, sReadFileSync}

fs_module_member(prop) ==
    LET word == as_word(prop)
    IN  IF word.some /\ word.val \in FsReadMethods
        THEN WellKnownFunction(FsReadMethod(word.val))
        ELSE IF word.some /\ word.val = sPromises
        THEN WellKnownObject(FsModule)
        ELSE Unknown(Some(Member(WellKnownObject(FsModule), prop)),
                     "unsupported property on Node.js fs module")

url_module_member(prop) ==
    IF as_str(prop) = Some(sPathToFileURL) THEN WellKnownFunction(PathToFileUrl)
    ELSE Unknown(Some(Member(WellKnownObject(UrlModule), prop)),
                 "unsupported property on Node.js url module")

SpawnMethods == {sSpawn, sSpawnSync, sExecFile, sExecFileSync}

child_process_module_member(prop) ==
    LET s == as_str(prop)
    IN  IF s.some /\ s.val \in SpawnMethods
        THEN WellKnownFunction(ChildProcessSpawnMethod(as_word(prop).val))
        ELSE IF s.some /\ s.val = sFork
        THEN WellKnownFunction(ChildProcessFork)
        ELSE Unknown(Some(Member(WellKnownObject(ChildProcess), prop)),
                     "unsupported property on Node.js child_process module")

well_known_object_member(kind, prop) ==
    IF kind = PathModule THEN path_module_member(prop)
    ELSE IF kind = FsModule THEN fs_module_member(prop)
    ELSE IF kind = UrlModule THEN url_module_member(prop)
    ELSE IF kind = ChildProcess THEN child_process_module_member(prop)
    ELSE Unknown(Some(Member(WellKnownObject(kind), prop)),
                 "unsupported object kind")

(***************************************************************************)
(* replace_well_known                                                      *)
(***************************************************************************)
IsWellKnownCall(value) ==
    value.tag = "Call" /\ value.callee.tag = "WellKnownFunction"

IsWellKnownObjectMember(value) ==
    value.tag = "Member" /\ value.obj.tag = "WellKnownObject"

IsWellKnownFunctionMember(value) ==
    value.tag = "Member" /\ value.obj.tag = "WellKnownFunction"

\* the pair a returning call yields
Returned(value, flag) == [value |-> value, changed |-> flag]

\* a panic inside the call handler unwinds through replace_well_known
replace_well_known(value) ==
    IF IsWellKnownCall(value)
    THEN LET r == well_known_function_call(
                      value.callee.kind,
                      Unknown(None, "this is not analysed yet"),
                      value.args)
         IN  IF r = Panic THEN Panic ELSE Returned(r, TRUE)
    ELSE IF IsWellKnownObjectMember(value)
    THEN Returned(well_known_object_member(value.obj.kind, value.prop), TRUE)
    ELSE IF IsWellKnownFunctionMember(value)
    THEN Returned(well_known_function_member(value.obj.kind, value.prop), TRUE)
    ELSE Returned(value, FALSE)

(***************************************************************************)
(* The nodes the analysis hands to the resolver.                           *)
(***************************************************************************)
\* a value the resolver cannot see through
Opaque == Unknown(None, "opaque")

ArgVals ==
    {ConstantStr(sA), ConstantStr(sB), ConstantStr(sDotDot), ConstantStr(sDot),
     ConstantStr(sEmpty), ConstantStr(sAB), ConstantStr(sAbsA),
     ConstantNum(1), Opaque,
     Concat(<<Opaque, ConstantStr(sAB)>>), Concat(<<Opaque, ConstantStr(sA)>>)}

ArgLists == UNION {[1..n -> ArgVals] : n \in 0..MaxArgs}

FunctionKinds ==
    {PathJoin, PathDirname, PathToFileUrl, Require, RequireResolve, Import,
     ChildProcessFork, FsReadMethod(sReadFile), ChildProcessSpawnMethod(sSpawn)}

ObjectKinds == {PathModule, FsModule, UrlModule, ChildProcess}

PropNames ==
    {sResolve, sJoin, sDirname, sPathToFileURL, sPromises, sFork, sA}
    \cup FsReadMethods \cup SpawnMethods

Props == {ConstantStr(s) : s \in PropNames} \cup {ConstantNum(1), Opaque}

WellKnownCalls ==
    {Call(WellKnownFunction(k), args) : k \in FunctionKinds, args \in ArgLists}

WellKnownMembers ==
    {Member(WellKnownObject(k), p) : k \in ObjectKinds, p \in Props}
    \cup {Member(WellKnownFunction(k), p) : k \in FunctionKinds, p \in Props}

\* nodes of every other shape
OtherTargets ==
    {Opaque, ConstantStr(sA), Module(sA),
     Member(WellKnownObject(PathModule), ConstantStr(sJoin)),
     Call(WellKnownFunction(Require), <<ConstantStr(sA)>>)}

OtherValues ==
    {ConstantStr(sA), ConstantStr(sAB), ConstantNum(1),
     Concat(<<Opaque, ConstantStr(sAB)>>),
     Concat(<<Call(WellKnownFunction(PathJoin), <<ConstantStr(sA)>>)>>),
     Alternatives(<<ConstantStr(sSlash), ConstantStr(sEmpty)>>),
     Module(sA), Url(sFileScheme \o sAbsA), Opaque,
     Unknown(Some(Call(WellKnownFunction(Require), << >>)),
             "only a single argument is supported")}
    \cup {WellKnownFunction(k) : k \in FunctionKinds}
    \cup {WellKnownObject(k) : k \in ObjectKinds}
    \cup {Call(t, args) : t \in OtherTargets \cup {WellKnownObject(PathModule)},
                          args \in {<< >>, <<ConstantStr(sA)>>}}
    \cup {Member(t, p) : t \in OtherTargets,
                         p \in {ConstantStr(sResolve), ConstantStr(sJoin)}}

Inputs == WellKnownCalls \cup WellKnownMembers \cup OtherValues

(***************************************************************************)
(* The state machine: the fixpoint driver holds one node (output) and      *)
(* hands it to replace_well_known again and again; input is the node it    *)
(* handed in last.                                                         *)
(***************************************************************************)
Init ==
    /\ input \in Inputs
    /\ output = input
    /\ changed = FALSE
    /\ status = "ready"

\* a panic ends the analysis: no further application takes place
CanApply == status # "panicked"

ReplaceWellKnown ==
    /\ CanApply
    /\ LET r == replace_well_known(output)
       IN  IF r = Panic
           THEN /\ status' = "panicked"
                /\ input' = output
                /\ UNCHANGED <<output, changed>>
           ELSE /\ status' = "returned"
                /\ input' = output
                /\ output' = r.value
                /\ changed' = r.changed

Next == ReplaceWellKnown

Spec == Init /\ [][Next]_vars

(***************************************************************************)
(* Vocabulary of the properties.                                           *)
(***************************************************************************)
\* the last application returned and had been handed the call fn(args)
ReturnedFrom(fn, args) ==
    status = "returned" /\ input = Call(WellKnownFunction(fn), args)

\* the last application returned and had been handed some call of fn
ReturnedFromCallOf(fn) ==
    /\ status = "returned"
    /\ IsWellKnownCall(input)
    /\ input.callee.kind = fn

IsLiteral(v) == as_str(v).some

AllLiterals(vs) == \A i \in 1..Len(vs) : IsLiteral(vs[i])

\* the string a value made of literal parts denotes: the parts left to right
RECURSIVE Chars(_)
Chars(items) ==
    IF items = << >> THEN << >>
    ELSE as_str(Head(items)).val \o Chars(Tail(items))

Denotes(v, str) ==
    IF v.tag = "Concat"
    THEN AllLiterals(v.items) /\ Chars(v.items) = str
    ELSE IsLiteral(v) /\ as_str(v).val = str

\* a real path segment: a literal without "/" that is not "", "." or ".."
RealSegments == {sA, sB}

\* args with the two arguments at positions i and i+1 removed
WithoutPair(args, i) == SubSeq(args, 1, i - 1) \o SubSeq(args, i + 2, Len(args))

AlternativesSlashOrEmpty ==
    Alternatives(<<ConstantStr(sSlash), ConstantStr(sEmpty)>>)

(***************************************************************************)
(* C1: replace_well_known never aborts: whatever node it is handed, a Call *)
(* of the PathJoin marker with any non-empty list of literal and opaque    *)
(* arguments included, it returns a value and a changed flag.              *)
(***************************************************************************)
C1_NeverAborts == status # "panicked"

(***************************************************************************)
(* C2: an application reports changed = TRUE exactly when the node handed  *)
(* in is a Call whose callee is a WellKnownFunction marker or a Member     *)
(* whose object is a WellKnownObject or WellKnownFunction marker; for      *)
(* every other node it returns the node itself with changed = FALSE.       *)
(***************************************************************************)
C2_ChangedExactlyOnWellKnown ==
    status # "ready" =>
        IF \/ IsWellKnownCall(input)
           \/ IsWellKnownObjectMember(input)
           \/ IsWellKnownFunctionMember(input)
        THEN status = "returned" /\ changed = TRUE
        ELSE status = "returned" /\ changed = FALSE /\ output = input

(***************************************************************************)
(* C3: applying the resolver again and again to its own result reaches an  *)
(* application that reports changed = FALSE (until one has, a further      *)
(* application is always possible); one more application after that        *)
(* reports changed = FALSE again and returns the same value; and a node    *)
(* that is already a Module, an Unknown or a literal is reported as        *)
(* changed = FALSE.                                                        *)
(***************************************************************************)
C3_ReachesFixpoint ==
    /\ (status = "returned" /\ changed = FALSE) \/ CanApply
    /\ (status = "returned" /\ changed = FALSE)
            => replace_well_known(output) = Returned(output, FALSE)
    /\ (status = "returned" /\ input.tag \in {"Module", "Unknown", "Constant"})
            => (changed = FALSE /\ output = input)

(***************************************************************************)
(* C4: for literal-only arguments the result of path_join denotes the      *)
(* normalized join: ["a","b"] gives "a/b", ["a","..","b"] gives "b" and    *)
(* ["..","a"] gives "../a"; a ".." right after a real literal segment      *)
(* cancels that segment (the result is that of the arguments without the   *)
(* pair), and a leading ".." is kept at the front of the result.           *)
(***************************************************************************)
C4_JoinNormalization ==
    LET args == input.args
    IN  (ReturnedFromCallOf(PathJoin) /\ AllLiterals(args) /\ args # << >>) =>
            /\ args = <<ConstantStr(sA), ConstantStr(sB)>>
                    => Denotes(output, <<"a", "/", "b">>)
            /\ args = <<ConstantStr(sA), ConstantStr(sDotDot), ConstantStr(sB)>>
                    => Denotes(output, <<"b">>)
            /\ args = <<ConstantStr(sDotDot), ConstantStr(sA)>>
                    => Denotes(output, <<".", ".", "/", "a">>)
            /\ \A i \in 1..(Len(args) - 1) :
                    ( /\ as_str(args[i]).val \in RealSegments
                      /\ as_str(args[i + 1]).val = sDotDot )
                    => output = path_join(WithoutPair(args, i))
            /\ as_str(args[1]).val = sDotDot
                    => /\ output.tag = "Concat"
                       /\ output.items[1] = ConstantStr(sDotDot)

C4_Witness ==
    /\ ReturnedFrom(PathJoin,
                    <<ConstantStr(sA), ConstantStr(sDotDot), ConstantStr(sB)>>)
    /\ output = Concat(<<ConstantStr(sB)>>)

(***************************************************************************)
(* C5 as written: path_join([".", "a"]) = "a": the leading literal "."     *)
(* does not appear in the string the result denotes.                       *)
(***************************************************************************)
C5_LeadingDotDropped ==
    ReturnedFrom(PathJoin, <<ConstantStr(sDot), ConstantStr(sA)>>)
        => Denotes(output, <<"a">>)

(***************************************************************************)
(* C5 as amended: a leading literal "." followed by a real literal segment *)
(* s is kept as the first part: path_join([".", s]) is the Concat of ".",  *)
(* "/" and s, which denotes "./s".                                         *)
(***************************************************************************)
C5_LeadingDotKept ==
    \A s \in RealSegments :
        ReturnedFrom(PathJoin, <<ConstantStr(sDot), ConstantStr(s)>>)
            => /\ output = Concat(<<ConstantStr(sDot), ConstantStr(sSlash),
                                    ConstantStr(s)>>)
               /\ Denotes(output, <<".", "/">> \o s)

C5_Witness ==
    /\ ReturnedFrom(PathJoin, <<ConstantStr(sDot), ConstantStr(sA)>>)
    /\ Denotes(output, <<".", "/", "a">>)

(***************************************************************************)
(* C6 as written: path_join([X, "..", "a"]) with X non-literal keeps X,    *)
(* then a literal "..", then "a", in that order, and both separators       *)
(* between them are literals.                                              *)
(***************************************************************************)
C6_OpaqueKeptLiteralSeparators ==
    \A X \in ArgVals :
        ( /\ ~IsLiteral(X)
          /\ ReturnedFrom(PathJoin, <<X, ConstantStr(sDotDot), ConstantStr(sA)>>) )
        => /\ output.tag = "Concat"
           /\ Len(output.items) = 5
           /\ output.items[1] = X
           /\ output.items[3] = ConstantStr(sDotDot)
           /\ output.items[5] = ConstantStr(sA)
           /\ IsLiteral(output.items[2])
           /\ IsLiteral(output.items[4])

(***************************************************************************)
(* C6 as amended: path_join([X, "..", "a"]) with X non-literal keeps X,    *)
(* then a literal "..", then "a", in that order; the separator after X is  *)
(* Alternatives{"/", ""} and the separator between ".." and "a" is the     *)
(* literal "/".                                                            *)
(***************************************************************************)
C6_OpaqueKept ==
    \A X \in ArgVals :
        ( /\ ~IsLiteral(X)
          /\ ReturnedFrom(PathJoin, <<X, ConstantStr(sDotDot), ConstantStr(sA)>>) )
        => output = Concat(<<X, AlternativesSlashOrEmpty, ConstantStr(sDotDot),
                             ConstantStr(sSlash), ConstantStr(sA)>>)

C6_Witness ==
    /\ ReturnedFrom(PathJoin, <<Opaque, ConstantStr(sDotDot), ConstantStr(sA)>>)
    /\ output.items[1] = Opaque
    /\ output.items[3] = ConstantStr(sDotDot)

(***************************************************************************)
(* C7: require with exactly one literal-string argument s returns          *)
(* Module(s); with exactly one non-literal argument it returns Unknown     *)
(* with the non-constant-argument reason; with any other number of         *)
(* arguments it returns Unknown with the wrong-arity reason; the reasons   *)
(* differ, and in both Unknown cases the origin is the Call of the Require *)
(* marker with the same arguments in the same order.                       *)
(***************************************************************************)
C7_Require ==
    LET args == input.args
    IN  ReturnedFromCallOf(Require) =>
            IF Len(args) = 1 /\ IsLiteral(args[1])
            THEN output = Module(as_str(args[1]).val)
            ELSE /\ output.tag = "Unknown"
                 /\ output.origin = Some(Call(WellKnownFunction(Require), args))
                 /\ (Len(args) = 1
                        => output.reason = "only constant argument is supported")
                 /\ (Len(args) # 1
                        => output.reason = "only a single argument is supported")
                 /\ (output.reason = "only constant argument is supported"
                        <=> Len(args) = 1)

C7_Witness ==
    /\ ReturnedFrom(Require, <<ConstantStr(sA), ConstantStr(sB)>>)
    /\ output.tag = "Unknown"
    /\ output.reason = "only a single argument is supported"

(***************************************************************************)
(* C8 as written: path_dirname of a Concat whose last part is a literal    *)
(* returns the Concat with that last part replaced by the substring before *)
(* its last "/", or by the empty string if it has no "/", every other part *)
(* unchanged; it never returns Unknown for such a Concat.                  *)
(***************************************************************************)
DirnameOfLiteral(str) ==
    IF rfind(str) = 0 THEN sEmpty ELSE SubSeq(str, 1, rfind(str) - 1)

EndsInLiteral(v) ==
    v.tag = "Concat" /\ v.items # << >> /\ IsLiteral(v.items[Len(v.items)])

LastLiteral(v) == as_str(v.items[Len(v.items)]).val

C8_ConcatDirnameTotal ==
    LET args == input.args
    IN  (ReturnedFromCallOf(PathDirname) /\ Len(args) >= 1 /\ EndsInLiteral(args[1]))
        => /\ output.tag = "Concat"
           /\ Len(output.items) = Len(args[1].items)
           /\ \A i \in 1..(Len(output.items) - 1) :
                  output.items[i] = args[1].items[i]
           /\ output.items[Len(output.items)]
                  = ConstantStr(DirnameOfLiteral(LastLiteral(args[1])))

(***************************************************************************)
(* C8 as amended: path_dirname of a Concat whose last part is a literal    *)
(* that contains a "/" returns the Concat with that last part replaced by  *)
(* the substring before its last "/", every other part unchanged; when the *)
(* trailing literal has no "/" it returns Unknown whose origin is the Call *)
(* of the PathDirname marker with the same arguments.                      *)
(***************************************************************************)
C8_ConcatDirname ==
    LET args == input.args
    IN  (ReturnedFromCallOf(PathDirname) /\ Len(args) >= 1 /\ EndsInLiteral(args[1]))
        => IF rfind(LastLiteral(args[1])) # 0
           THEN /\ output.tag = "Concat"
                /\ Len(output.items) = Len(args[1].items)
                /\ \A i \in 1..(Len(output.items) - 1) :
                       output.items[i] = args[1].items[i]
                /\ output.items[Len(output.items)]
                       = ConstantStr(DirnameOfLiteral(LastLiteral(args[1])))
           ELSE /\ output.tag = "Unknown"
                /\ output.origin = Some(Call(WellKnownFunction(PathDirname), args))

C8_Witness ==
    /\ ReturnedFrom(PathDirname, <<Concat(<<Opaque, ConstantStr(sA)>>)>>)
    /\ output.tag = "Unknown"

(***************************************************************************)
(* C9: the property "resolve" on the Require function marker resolves to   *)
(* the RequireResolve function marker; "promises" on the fs-module object  *)
(* marker resolves to the fs-module object marker; and a property that is  *)
(* not in the table of its well-known object or function, a non-literal    *)
(* property included, resolves to Unknown whose origin is the Member       *)
(* expression with the same object marker and the same property.           *)
(***************************************************************************)
\* the property names section 4.6 of the design lists for each marker
TableOf(obj) ==
    IF obj = WellKnownObject(PathModule) THEN {sJoin, sDirname}
    ELSE IF obj = WellKnownObject(FsModule)
    THEN {sRealpath, sRealpathSync, sStat, sStatSync, sExistsSync,
          sCreateReadStream, sExists, sOpen, sOpenSync, sReadFile,
          sReadFileSync, sPromises}
    ELSE IF obj = WellKnownObject(UrlModule) THEN {sPathToFileURL}
    ELSE IF obj = WellKnownObject(ChildProcess)
    THEN {sSpawn, sSpawnSync, sExecFile, sExecFileSync, sFork}
    ELSE IF obj = WellKnownFunction(Require) THEN {sResolve}
    ELSE {}

InTable(obj, prop) == IsLiteral(prop) /\ as_str(prop).val \in TableOf(obj)

ReturnedFromMember ==
    /\ status = "returned"
    /\ IsWellKnownObjectMember(input) \/ IsWellKnownFunctionMember(input)

C9_MemberTables ==
    ReturnedFromMember =>
        /\ input = Member(WellKnownFunction(Require), ConstantStr(sResolve))
              => output = WellKnownFunction(RequireResolve)
        /\ input = Member(WellKnownObject(FsModule), ConstantStr(sPromises))
              => output = WellKnownObject(FsModule)
        /\ ~InTable(input.obj, input.prop)
              => /\ output.tag = "Unknown"
                 /\ output.origin = Some(Member(input.obj, input.prop))
        /\ InTable(input.obj, input.prop) => output.tag # "Unknown"

C9_Witness ==
    /\ status = "returned"
    /\ input = Member(WellKnownFunction(PathJoin), ConstantStr(sResolve))
    /\ output.tag = "Unknown"
    /\ output.origin = Some(input)

(***************************************************************************)
(* C10: when path_join of a non-empty argument list returns a Concat of n  *)
(* finalized parts, the Concat has exactly 2n-1 items, the finalized parts *)
(* at the odd positions and a separator between each two; the separator is *)
(* the literal "/" if and only if both its neighbours are literal strings  *)
(* and is otherwise Alternatives{"/", ""}.                                 *)
(***************************************************************************)
C10_Separators ==
    LET args == input.args
    IN  (ReturnedFromCallOf(PathJoin) /\ args # << >> /\ output.tag = "Concat")
        => LET finalized == Normalize(Flatten(args))
               n == Len(finalized)
               items == output.items
           IN  /\ n >= 1
               /\ Len(items) = 2 * n - 1
               /\ \A i \in 1..n : items[2 * i - 1] = finalized[i]
               /\ \A i \in 1..(n - 1) :
                     /\ (items[2 * i] = ConstantStr(sSlash))
                            <=> (IsLiteral(items[2 * i - 1]) /\ IsLiteral(items[2 * i + 1]))
                     /\ items[2 * i] # ConstantStr(sSlash)
                            => items[2 * i] = AlternativesSlashOrEmpty

C10_Witness ==
    /\ ReturnedFrom(PathJoin, <<ConstantStr(sA), Opaque, ConstantStr(sB)>>)
    /\ output = Concat(<<ConstantStr(sA), AlternativesSlashOrEmpty, Opaque,
                         AlternativesSlashOrEmpty, ConstantStr(sB)>>)

====
